---- MODULE Spec2Model ----
(***************************************************************************)
(* Model of the mealog recording controller (mealog.cpp) writing an        *)
(* H5Recording (h5recording.h).  The controller's handlers run on one      *)
(* event loop; recvData is split at its three statements so that readers   *)
(* of the file and a crash of the process can fall between them.           *)
(*                                                                         *)
(* The sample matrix is kept at block granularity: every write the         *)
(* controller issues starts at numSamplesAcquired, a multiple of           *)
(* BLOCK_SIZE, and is BLOCK_SIZE wide, so a block holds one raw value      *)
(* (0 while unwritten, -1 after a failed write).                           *)
(***************************************************************************)
EXTENDS Integers, Sequences, FiniteSets, TLC

\* ------------------------------------------------------------- constants
BLOCK_SIZE == 2000
NCHANNELS == 64
DefaultType == 2
DefaultVersion == 1
DefaultBlockSize == 20000
SampleRate == 10000
DefaultRoom == "recorded in d239"
RECORDING_FILE_EXTENSION == ".h5"

\* Mealog::ADC_RANGES and Mealog::DEFAULT_ADC_RANGE, in volts.
ADC_RANGES == {1, 5}
DEFAULT_ADC_RANGE == 5

\* What QDate::currentDate() and QTime::currentTime() can give.
Clock == {[date |-> "Mon, Jan 05, 2015", time |-> "9:00:00 AM"],
          [date |-> "Tue, Jan 06, 2015", time |-> "3:30:00 PM"]}

\* ---------------------------------------------------------------- bounds
MaxLength == 1
MaxBlocks == 6
NThreads == 3

Lengths == 1..MaxLength
\* A block of the stream is told apart by the raw value its samples hold; a
\* region never written reads as zeros, a block whose write failed as garbage.
Payloads == 1..MaxBlocks
NoData == 0
Partial == -1

VARIABLES
    recording,              \* the pointer MealogWindow::recording
    h5,                     \* the members of the H5Recording it points to
    fileExists,             \* the recording file on disk
    fileAttr,               \* its persisted attributes
    fileData,               \* its dataset, one entry per block
    created,                \* the attributes the file's recording was created with
    recordingInitialized,
    numSamplesAcquired,
    isRecording,
    client,                 \* the pointer MealogWindow::client and its DaqClient
    startButton,            \* startButton->isEnabled()
    connectButton,          \* connectButton: its slot and enabled state
    initRecordingButton,    \* which slot initRecordingButton is connected to
    paramsEnabled,          \* the parameter widgets' enabled state
    timeLine,               \* timeLine->text()
    adcRangeBox,            \* the range adcRangeBox has selected
    pc,                     \* position inside recvData
    samples,                \* the block recvData holds
    result,                 \* how the last handler that ran ended
    appended,               \* blocks appended to the current recording, in order
    reply,                  \* the status reply the last step sent, if any
    readResult,             \* what the last step's data() call returned, if any
    reopened,               \* what the last step read back on opening the file
    entryLvs,               \* lastValidSample when the last handler was entered
    crashed,                \* the process has terminated abnormally
    sem,                    \* permits available in PlotWindow::sem
    worker                  \* each PlotWorker: where its thread is, the permits
                            \* it holds, its `transferring` flag

mealogVars == <<recording, h5, fileExists, fileAttr, fileData, created,
          recordingInitialized,
          numSamplesAcquired, isRecording, client, startButton, connectButton,
          initRecordingButton, paramsEnabled, timeLine, adcRangeBox, pc, samples, result,
          appended, reply, readResult, reopened, entryLvs, crashed>>

plotVars == <<sem, worker>>

vars == <<mealogVars, plotVars>>

ctrlVars == <<recordingInitialized, isRecording, client, startButton,
              connectButton, initRecordingButton, paramsEnabled, timeLine,
              adcRangeBox>>

fileVars == <<fileExists, fileAttr, fileData, created>>

\* ------------------------------------------------------------ H5Recording
\* Members without a default initializer hold no defined value before the
\* setters run; the controller sets each of them in setRecordingParameters.
NoRecording ==
    [live |-> FALSE, length |-> 0, nsamples |-> 0, lastValidSample |-> 0,
     type |-> 0, version |-> 0, sampleRate |-> 0, nchannels |-> 0,
     blockSize |-> 0, gain |-> [num |-> 0, den |-> 1], offset |-> 0,
     date |-> "", time |-> "", room |-> "", filename |-> ""]

\* The path getFullFilename() gives.
FullFilename == "recording" \o RECORDING_FILE_EXTENSION

\* H5Recording(filename) for a new file: the members with a default
\* initializer and the file name.
NewRecording(filename) ==
    [NoRecording EXCEPT !.filename = filename,
                        !.type = DefaultType, !.version = DefaultVersion,
                        !.nchannels = NCHANNELS, !.blockSize = DefaultBlockSize,
                        !.sampleRate = SampleRate, !.room = DefaultRoom]

NoFileData == <<>>

NumBlocks(nsamples) == nsamples \div BLOCK_SIZE

EmptyData(nsamples) == [b \in 1..NumBlocks(nsamples) |-> NoData]

\* The block (1-based) holding sample index i.
BlockOf(i) == (i \div BLOCK_SIZE) + 1

\* Number of leading samples of the dataset that hold written data.
RECURSIVE WrittenPrefixBlocks(_, _)
WrittenPrefixBlocks(data, b) ==
    IF b > Len(data) THEN 0
    ELSE IF data[b] \in Payloads THEN 1 + WrittenPrefixBlocks(data, b + 1)
    ELSE 0

WrittenPrefix(data) == BLOCK_SIZE * WrittenPrefixBlocks(data, 1)

NoClient == [ptr |-> "null", state |-> "none", blockSize |-> 0, nsamples |-> 0,
             dataSlot |-> FALSE, brokenSlot |-> FALSE]

\* How a handler ended; answer is what the user answered in the overwrite
\* dialog, if initRecording showed it.
Ok(op) == [op |-> op, err |-> "none", answer |-> "none"]
Err(op, e) == [op |-> op, err |-> e, answer |-> "none"]

\* The fields of mearec::RecordingStatusRequest and RecordingStatusReply.
ReplyFields == {"status", "filename", "length", "nsamples", "lastvalidsample",
                "blocksize", "samplerate", "gain", "offset", "date"}

\* A request with the fields of set to true, those of unset present and
\* false, and the others absent.
Request(set, unset) ==
    [f \in ReplyFields |-> IF f \in set THEN "true"
                           ELSE IF f \in unset THEN "false" ELSE "absent"]

Requests ==
    {Request(ReplyFields, {}),
     Request({"lastvalidsample"}, {"nsamples"}),
     Request({"nsamples", "blocksize", "gain"}, {"status", "date"})}

NoReply == [sent |-> FALSE, request |-> Request({}, {}), fields |-> [f \in {} |-> 0]]
NoRead == [err |-> "none", lo |-> 0, hi |-> 0, lvs |-> 0,
           startSample |-> 0, endSample |-> 0, raw |-> <<>>, voltage |-> <<>>]
NoReopen == [opened |-> FALSE, attrs |-> NoRecording]

\* The plot window's thread pool: one PlotWorker per thread, none of them
\* transferring, and a semaphore with one permit per thread.
Workers == 1..NThreads

PlotInit ==
    /\ sem = NThreads
    /\ worker = [w \in Workers |->
                    [pc |-> "idle", held |-> 0, transferring |-> FALSE]]

Init ==
    /\ recording = "null"
    /\ h5 = NoRecording
    /\ fileExists \in BOOLEAN
    /\ fileAttr = NoRecording
    /\ fileData = NoFileData
    /\ created = NoRecording
    /\ recordingInitialized = FALSE
    /\ numSamplesAcquired = 0
    /\ isRecording = FALSE
    /\ client = NoClient
    /\ startButton = FALSE
    /\ connectButton = [slot |-> "connectToDaqsrv", enabled |-> TRUE]
    /\ initRecordingButton = "initRecording"
    /\ paramsEnabled = TRUE
    /\ timeLine \in Lengths
    /\ adcRangeBox = DEFAULT_ADC_RANGE
    /\ pc = 0
    /\ samples = NoData
    /\ result = Ok("construct")
    /\ appended = <<>>
    /\ reply = NoReply
    /\ readResult = NoRead
    /\ reopened = NoReopen
    /\ entryLvs = 0
    /\ crashed = FALSE
    /\ PlotInit


\* ------------------------------------------------- H5Recording operations
\* H5Recording::setData: the store's range write.  It refuses a range outside
\* 0 <= startSample < endSample <= nsamples and may fail in the underlying
\* write; io says whether the underlying write fails.
SetDataError(h, startSample, endSample, io) ==
    IF ~(0 <= startSample /\ startSample < endSample /\ endSample <= h.nsamples)
    THEN "RangeError"
    ELSE IF io THEN "IOError" ELSE "none"

\* The dataset after writing token d over [startSample, endSample).
SetDataWrite(data, startSample, endSample, d) ==
    [b \in DOMAIN data |->
        IF startSample <= (b - 1) * BLOCK_SIZE /\ b * BLOCK_SIZE <= endSample
        THEN d ELSE data[b]]

\* setLastValidSample that also sets the block size to the chunk width.
SetLastValidSample_SetsBlockSize(h, sample) ==
    [h EXCEPT !.lastValidSample = sample, !.blockSize = BLOCK_SIZE]

\* H5Recording::setLastValidSample: the member and the persisted attribute.
SetLastValidSample(h, sample) == [h EXCEPT !.lastValidSample = sample]

\* H5Recording::setLive
SetLive(h, live) == [h EXCEPT !.live = live]

\* H5Recording::data: the end of the range is clamped to lastValidSample, a
\* start at or beyond it is refused, and the store refuses an empty or
\* reversed range.
Min(a, b) == IF a < b THEN a ELSE b

\* data() handing the requested end to the store as it is.
ClampEnd_NoClamp(h, endSample) == endSample

ClampEnd(h, endSample) == Min(endSample, h.lastValidSample)

\* data() that hands any range starting below lastValidSample to the store
\* and takes what comes back.
Data_NoRangeCheck(h, startSample, endSample) ==
    IF startSample >= h.lastValidSample
    THEN [err |-> "RangeError", lo |-> 0, hi |-> 0, lvs |-> h.lastValidSample]
    ELSE [err |-> "none", lo |-> startSample, hi |-> ClampEnd(h, endSample),
          lvs |-> h.lastValidSample]

Data(h, startSample, endSample) ==
    LET hi == ClampEnd(h, endSample) IN
    IF startSample >= h.lastValidSample
    THEN [err |-> "RangeError", lo |-> 0, hi |-> 0, lvs |-> h.lastValidSample]
    ELSE IF ~(0 <= startSample /\ startSample < hi /\ hi <= h.nsamples)
    THEN [err |-> "RangeError", lo |-> 0, hi |-> 0, lvs |-> h.lastValidSample]
    ELSE [err |-> "none", lo |-> startSample, hi |-> hi, lvs |-> h.lastValidSample]

\* The store's readRange: the raw values of the samples lo..hi-1, one per
\* block the range touches.
ReadRange(data, lo, hi) ==
    [b \in 1..(BlockOf(hi - 1) - BlockOf(lo) + 1) |-> data[BlockOf(lo) + b - 1]]

\* The conversion with the offset added.
ToVoltage_PlusOffset(raw, gain, offset) ==
    [num |-> raw * gain.num + offset * gain.den, den |-> gain.den]

\* voltage = raw * gain - offset, as a fraction over the gain's denominator.
ToVoltage(raw, gain, offset) ==
    [num |-> raw * gain.num - offset * gain.den, den |-> gain.den]

\* The store's readRangeAsVoltage.
ReadRangeAsVoltage(data, lo, hi, gain, offset) ==
    [b \in DOMAIN ReadRange(data, lo, hi) |->
        ToVoltage(ReadRange(data, lo, hi)[b], gain, offset)]

\* data(startSample, endSample, samples &) and data(startSample, endSample,
\* samples_d &) over the same range of the file.
ReadBoth(h, data, startSample, endSample) ==
    LET r == Data(h, startSample, endSample) IN
    [err |-> r.err, lo |-> r.lo, hi |-> r.hi, lvs |-> r.lvs,
     startSample |-> startSample, endSample |-> endSample,
     raw |-> IF r.err = "none" THEN ReadRange(data, r.lo, r.hi) ELSE <<>>,
     voltage |-> IF r.err = "none"
                 THEN ReadRangeAsVoltage(data, r.lo, r.hi, h.gain, h.offset)
                 ELSE <<>>]

\* Reading back with the block size taken from the chunk width.
ReadAttributes_ChunkBlockSize(attrs) == [attrs EXCEPT !.blockSize = BLOCK_SIZE]

\* Opening an existing recording reads every attribute back from the file.
ReadAttributes(attrs) == attrs

\* Closing that drops the boundary.
CloseRecording_LosesLvs(h, attrs) == [attrs EXCEPT !.lastValidSample = 0]

\* ~H5Recording: every setter wrote its attribute when it was called, so
\* closing leaves the persisted attributes as they are.
CloseRecording(h, attrs) == attrs

\* `delete recording`: what the pointer refers to afterwards.  Deleting a
\* null pointer does nothing; the pointer itself keeps its value.
Deleted(ptr) == IF ptr = "null" THEN "null" ELSE "deleted"

\* ------------------------------------------------------------- controller
\* The gain taken as range / 2^16.
Gain_Undoubled(adcRange) == [num |-> adcRange, den |-> 2^16]

\* (adcRange * 2) / (1 << 16), kept as a fraction.
Gain(adcRange) == [num |-> adcRange * 2, den |-> 2^16]

\* MealogWindow::setRecordingParameters on the newly constructed H5Recording
\* h; type, version and sample rate are set to what the getters return.
SetRecordingParameters(h, text, adcRange, now) ==
    [h EXCEPT !.length = text,
              !.live = TRUE,
              !.type = h.type,
              !.version = h.version,
              !.sampleRate = h.sampleRate,
              !.nsamples = text * h.sampleRate,
              !.offset = adcRange,
              !.gain = Gain(adcRange),
              !.lastValidSample = 0,
              !.time = now.time,
              !.date = now.date]

\* MealogWindow::sendInitMsg
SendInitMsg(c, text) ==
    [c EXCEPT !.blockSize = BLOCK_SIZE, !.nsamples = text * SampleRate]

IsConnected(c) == c.ptr # "null" /\ c.state = "connected"

Idle == ~crashed /\ pc = 0

\* The process dies: its memory is gone, the file stays as it is.
Terminate(op, cause) ==
    /\ crashed' = TRUE
    /\ recording' = "null"
    /\ h5' = NoRecording
    /\ recordingInitialized' = FALSE
    /\ numSamplesAcquired' = 0
    /\ isRecording' = FALSE
    /\ client' = NoClient
    /\ startButton' = FALSE
    /\ connectButton' = [slot |-> "connectToDaqsrv", enabled |-> TRUE]
    /\ initRecordingButton' = "initRecording"
    /\ paramsEnabled' = TRUE
    /\ timeLine' = 1
    /\ adcRangeBox' = DEFAULT_ADC_RANGE
    /\ pc' = 0
    /\ samples' = NoData
    /\ appended' = <<>>
    /\ reply' = NoReply
    /\ readResult' = NoRead
    /\ reopened' = NoReopen
    /\ entryLvs' = 0
    /\ result' = Err(op, cause)
    /\ UNCHANGED fileVars

\* A handler is entered; it sends no status reply and reads no data.
NoOutput ==
    /\ reply' = NoReply
    /\ readResult' = NoRead
    /\ reopened' = NoReopen
    /\ entryLvs' = h5.lastValidSample

\* What QMessageBox::exec() returns for the button the user presses: the
\* StandardButton value, QMessageBox::Ok = 0x400, QMessageBox::Cancel =
\* 0x400000.
BoxExec(answer) == IF answer = "Ok" THEN 1024 ELSE 4194304

\* MealogWindow::confirmFileOverwrite: `return box.exec()` converted to bool.
ConfirmFileOverwrite(answer) == BoxExec(answer) # 0

\* MealogWindow::initRecording.  When the file exists and is not the default
\* save file the user is asked to confirm; then the old file is removed.
InitRecording ==
    /\ Idle
    /\ initRecordingButton = "initRecording"
    /\ NoOutput
    /\ \E isDefaultFile \in BOOLEAN, answer \in {"Ok", "Cancel"},
          removed \in BOOLEAN, now \in Clock :
        LET asked == fileExists /\ ~isDefaultFile
            shown == IF asked THEN answer ELSE "none"
        IN  IF asked /\ ~ConfirmFileOverwrite(answer)
            THEN /\ result' = [Err("initRecording", "cancelled")
                                    EXCEPT !.answer = shown]
                 /\ UNCHANGED <<recording, h5, fileVars, numSamplesAcquired,
                                ctrlVars, pc, samples, appended, crashed>>
            ELSE IF fileExists /\ ~removed
            THEN /\ result' = [Err("initRecording", "notRemoved")
                                    EXCEPT !.answer = shown]
                 /\ UNCHANGED <<recording, h5, fileVars, numSamplesAcquired,
                                ctrlVars, pc, samples, appended, crashed>>
            ELSE /\ recording' = "open"
                 /\ h5' = SetRecordingParameters(NewRecording(FullFilename),
                                                  timeLine, adcRangeBox, now)
                 /\ fileExists' = TRUE
                 /\ fileAttr' = h5'
                 /\ created' = h5'
                 /\ fileData' = EmptyData(h5'.nsamples)
                 /\ client' = IF client.ptr # "null"
                              THEN SendInitMsg(client, timeLine) ELSE client
                 /\ paramsEnabled' = FALSE
                 /\ initRecordingButton' = "deInitRecording"
                 /\ recordingInitialized' = TRUE
                 /\ startButton' = (IsConnected(client) \/ startButton)
                 /\ appended' = <<>>
                 /\ result' = [Ok("initRecording") EXCEPT !.answer = shown]
                 /\ UNCHANGED <<numSamplesAcquired, isRecording, connectButton,
                                timeLine, adcRangeBox, pc, samples, crashed>>

\* MealogWindow::deInitRecording.  Deleting an already deleted recording is
\* undefined: the process dies or goes on.
DeInitRecording ==
    /\ Idle
    /\ initRecordingButton = "deInitRecording"
    /\ \E removed \in BOOLEAN, dies \in BOOLEAN :
        IF recording = "deleted" /\ dies
        THEN Terminate("deInitRecording", "doubleDelete")
        ELSE /\ recording' = "null"
             /\ h5' = NoRecording
             /\ appended' = <<>>
             /\ NoOutput
             /\ IF fileExists /\ removed
                THEN /\ fileExists' = FALSE
                     /\ fileAttr' = NoRecording
                     /\ fileData' = NoFileData
                     /\ created' = NoRecording
                     /\ paramsEnabled' = TRUE
                     /\ startButton' = FALSE
                     /\ initRecordingButton' = "initRecording"
                     /\ recordingInitialized' = FALSE
                     /\ result' = Ok("deInitRecording")
                ELSE /\ result' = Err("deInitRecording", "notRemoved")
                     /\ fileAttr' = IF recording = "open"
                                    THEN CloseRecording(h5, fileAttr) ELSE fileAttr
                     /\ UNCHANGED <<fileExists, fileData, created,
                                    paramsEnabled, startButton,
                                    initRecordingButton, recordingInitialized>>
             /\ UNCHANGED <<numSamplesAcquired, isRecording, client,
                            connectButton, timeLine, adcRangeBox, pc, samples, crashed>>

\* The user edits the recording length while the parameter widgets are enabled.
EditTimeLine ==
    /\ Idle
    /\ paramsEnabled
    /\ \E text \in Lengths : timeLine' = text
    /\ result' = Ok("editTimeLine")
    /\ NoOutput
    /\ UNCHANGED <<recording, h5, fileVars, recordingInitialized,
                   numSamplesAcquired, isRecording, client, startButton,
                   connectButton, initRecordingButton, paramsEnabled,
                   adcRangeBox, pc, samples, appended, crashed>>

\* The user selects an ADC range while the parameter widgets are enabled.
EditAdcRange ==
    /\ Idle
    /\ paramsEnabled
    /\ \E range \in ADC_RANGES : adcRangeBox' = range
    /\ result' = Ok("editAdcRange")
    /\ NoOutput
    /\ UNCHANGED <<recording, h5, fileVars, recordingInitialized,
                   numSamplesAcquired, isRecording, client, startButton,
                   connectButton, initRecordingButton, paramsEnabled,
                   timeLine, pc, samples, appended, crashed>>

\* MealogWindow::connectToDaqsrv
ConnectToDaqsrv ==
    /\ Idle
    /\ connectButton = [slot |-> "connectToDaqsrv", enabled |-> TRUE]
    /\ client' = [ptr |-> "object", state |-> "connecting", blockSize |-> 0,
                  nsamples |-> 0, dataSlot |-> FALSE, brokenSlot |-> TRUE]
    /\ connectButton' = [connectButton EXCEPT !.enabled = FALSE]
    /\ result' = Ok("connectToDaqsrv")
    /\ NoOutput
    /\ UNCHANGED <<recording, h5, fileVars, recordingInitialized,
                   numSamplesAcquired, isRecording, startButton,
                   initRecordingButton, paramsEnabled, timeLine, adcRangeBox, pc, samples,
                   appended, crashed>>

\* MealogWindow::handleDaqsrvConnection
HandleDaqsrvConnection ==
    /\ Idle
    /\ client.ptr # "null" /\ client.state = "connecting"
    /\ NoOutput
    /\ \E made \in BOOLEAN :
        IF made
        THEN /\ connectButton' = [slot |-> "disconnectFromDaqsrv", enabled |-> TRUE]
             /\ client' = IF recordingInitialized
                          THEN SendInitMsg([client EXCEPT !.state = "connected"], timeLine)
                          ELSE [client EXCEPT !.state = "connected"]
             /\ startButton' = (recordingInitialized \/ startButton)
             /\ result' = Ok("handleDaqsrvConnection")
        ELSE /\ client' = NoClient
             /\ connectButton' = [connectButton EXCEPT !.enabled = TRUE]
             /\ startButton' = startButton
             /\ result' = Err("handleDaqsrvConnection", "notMade")
    /\ UNCHANGED <<recording, h5, fileVars, recordingInitialized,
                   numSamplesAcquired, isRecording, initRecordingButton,
                   paramsEnabled, timeLine, adcRangeBox, pc, samples, appended, crashed>>

\* MealogWindow::disconnectFromDaqsrv
DisconnectFromDaqsrv ==
    /\ Idle
    /\ connectButton = [slot |-> "disconnectFromDaqsrv", enabled |-> TRUE]
    /\ client' = [client EXCEPT !.state = "disconnected", !.brokenSlot = FALSE]
    /\ connectButton' = [connectButton EXCEPT !.slot = "connectToDaqsrv"]
    /\ result' = Ok("disconnectFromDaqsrv")
    /\ NoOutput
    /\ UNCHANGED <<recording, h5, fileVars, recordingInitialized,
                   numSamplesAcquired, isRecording, startButton,
                   initRecordingButton, paramsEnabled, timeLine, adcRangeBox, pc, samples,
                   appended, crashed>>

\* MealogWindow::cleanupRecording: the pointer after `delete this->recording`.
\* The pointer is not reset.
CleanupRecording(ptr) == Deleted(ptr)

\* MealogWindow::handleBrokenServerConnection.  When everything was acquired
\* it runs cleanupRecording; deleting a deleted recording again is undefined.
HandleBrokenServerConnection ==
    /\ Idle
    /\ IsConnected(client) /\ client.brokenSlot
    /\ \E dies \in BOOLEAN :
        IF numSamplesAcquired = client.nsamples /\ recording = "deleted" /\ dies
        THEN Terminate("cleanupRecording", "doubleDelete")
        ELSE /\ client' = [client EXCEPT !.state = "broken"]
             /\ NoOutput
             /\ IF numSamplesAcquired = client.nsamples
                THEN /\ recording' = CleanupRecording(recording)
                     /\ h5' = NoRecording
                     /\ appended' = <<>>
                     /\ isRecording' = FALSE
                     /\ startButton' = FALSE
                     /\ fileAttr' = IF recording = "open"
                                    THEN CloseRecording(h5, fileAttr) ELSE fileAttr
                     /\ result' = Ok("cleanupRecording")
                ELSE /\ result' = Err("handleBrokenServerConnection", "brokenPipe")
                     /\ UNCHANGED <<recording, h5, fileAttr, isRecording,
                                    startButton, appended>>
             /\ UNCHANGED <<fileExists, fileData, created,
                            recordingInitialized, numSamplesAcquired,
                            connectButton, initRecordingButton, paramsEnabled,
                            timeLine, adcRangeBox, pc, samples, crashed>>

\* MealogWindow::startRecording.  With no client the call through the null
\* pointer ends the process.
StartRecording ==
    /\ Idle
    /\ startButton
    /\ IF client.ptr = "null"
       THEN Terminate("startRecording", "nullClient")
       ELSE /\ client' = [client EXCEPT !.dataSlot = TRUE]
            /\ result' = Ok("startRecording")
            /\ NoOutput
            /\ UNCHANGED <<recording, h5, fileVars, recordingInitialized,
                           numSamplesAcquired, isRecording, startButton,
                           connectButton, initRecordingButton, paramsEnabled,
                           timeLine, adcRangeBox, pc, samples, appended, crashed>>

\* recvData with lastValidSample advanced before the data is written.
RecvDataOrder_AdvanceFirst == <<"advance", "setLastValidSample", "setData">>

\* MealogWindow::recvData: the order of its statements after the block is
\* received.
RecvDataOrder == <<"setData", "advance", "setLastValidSample">>

\* The position after statement pc of recvData; past the last one the
\* handler returns.
NextPc == IF pc = Len(RecvDataOrder) THEN 0 ELSE pc + 1

\* What returning from recvData leaves: the block is appended.
RecvDataReturns ==
    IF NextPc = 0
    THEN /\ result' = Ok("recvData")
         /\ appended' = Append(appended, samples)
         /\ samples' = NoData
    ELSE /\ result' = Err("recvData", "pending")
         /\ UNCHANGED <<appended, samples>>

\* The block the server delivers once the controller has counted `acquired`
\* samples: blocks arrive in acquisition order and each holds its own value.
StreamBlock(acquired) == (acquired \div BLOCK_SIZE) + 1

\* MealogWindow::recvData is entered on dataAvailable and receives a block
\* from the client.
RecvData ==
    /\ Idle
    /\ IsConnected(client) /\ client.dataSlot
    /\ numSamplesAcquired < MaxBlocks * BLOCK_SIZE
    /\ samples' = StreamBlock(numSamplesAcquired)
    /\ pc' = 1
    /\ result' = Err("recvData", "pending")
    /\ NoOutput
    /\ UNCHANGED <<recording, h5, fileVars, numSamplesAcquired, ctrlVars,
                   appended, crashed>>

\* recvData: recording->setData(numSamplesAcquired,
\* numSamplesAcquired + client->blockSize(), samples).  A failing setData
\* leaves the handler by its exception.  With a null recording the process
\* dies; with a deleted one the call is undefined and either kills the
\* process or fails on the closed file.
RecvDataSetData ==
    /\ ~crashed
    /\ pc > 0 /\ RecvDataOrder[pc] = "setData"
    /\ \E io \in BOOLEAN, partial \in BOOLEAN :
        LET startSample == numSamplesAcquired
            endSample == numSamplesAcquired + client.blockSize
            err == SetDataError(h5, startSample, endSample, io)
        IN  IF recording = "null" \/ (recording = "deleted" /\ io)
            THEN Terminate("recvData", "badPointer")
            ELSE /\ IF recording = "deleted"
                    THEN /\ result' = Err("recvData", "IOError")
                         /\ pc' = 0
                         /\ samples' = NoData
                         /\ UNCHANGED <<fileData, appended>>
                    ELSE IF err = "none"
                    THEN /\ fileData' = SetDataWrite(fileData, startSample, endSample, samples)
                         /\ pc' = NextPc
                         /\ RecvDataReturns
                    ELSE /\ fileData' =
                                IF err = "IOError" /\ partial
                                THEN SetDataWrite(fileData, startSample, endSample, Partial)
                                ELSE fileData
                         /\ result' = Err("recvData", err)
                         /\ pc' = 0
                         /\ samples' = NoData
                         /\ UNCHANGED appended
                 /\ reply' = NoReply
                 /\ readResult' = NoRead
                 /\ reopened' = NoReopen
                 /\ UNCHANGED <<recording, h5, fileExists, fileAttr, created,
                                numSamplesAcquired, ctrlVars, entryLvs, crashed>>

\* recvData: numSamplesAcquired += client->blockSize()
RecvDataAdvance ==
    /\ ~crashed
    /\ pc > 0 /\ RecvDataOrder[pc] = "advance"
    /\ numSamplesAcquired' = numSamplesAcquired + client.blockSize
    /\ pc' = NextPc
    /\ RecvDataReturns
    /\ reply' = NoReply
    /\ readResult' = NoRead
    /\ reopened' = NoReopen
    /\ UNCHANGED <<recording, h5, fileVars, ctrlVars, entryLvs, crashed>>

\* recvData: recording->setLastValidSample(numSamplesAcquired)
RecvDataSetLastValidSample ==
    /\ ~crashed
    /\ pc > 0 /\ RecvDataOrder[pc] = "setLastValidSample"
    /\ recording = "open"
    /\ h5' = SetLastValidSample(h5, numSamplesAcquired)
    /\ fileAttr' = SetLastValidSample(fileAttr, numSamplesAcquired)
    /\ pc' = NextPc
    /\ RecvDataReturns
    /\ reply' = NoReply
    /\ readResult' = NoRead
    /\ reopened' = NoReopen
    /\ UNCHANGED <<recording, fileExists, fileData, created, numSamplesAcquired,
                   ctrlVars, entryLvs, crashed>>

\* What constructStatusReply puts into field f: recordingStatus for the
\* status, the recording's getter for the others.
ReplyValue(h, recordingStatus, f) ==
    CASE f = "status" -> recordingStatus
      [] f = "filename" -> h.filename
      [] f = "length" -> h.length
      [] f = "nsamples" -> h.nsamples
      [] f = "lastvalidsample" -> h.lastValidSample
      [] f = "blocksize" -> h.blockSize
      [] f = "samplerate" -> h.sampleRate
      [] f = "gain" -> h.gain
      [] f = "offset" -> h.offset
      [] f = "date" -> h.date

\* MealogWindow::constructStatusReply: a field is set when the request has it
\* and it is true.
ConstructStatusReply(request, h, recordingStatus) ==
    [sent |-> TRUE,
     request |-> request,
     fields |-> [f \in {g \in ReplyFields : request[g] = "true"} |->
                    ReplyValue(h, recordingStatus, f)]]

\* A status reply that resets the boundary it reports.
StatusReplyEffect_ResetsLvs(h) == [h EXCEPT !.lastValidSample = 0]

\* What constructStatusReply leaves of the recording: it only calls getters.
StatusReplyEffect(h) == h

\* MealogWindow::respondToClient.  Messages are ignored until a recording is
\* initialized.  Reading through a null pointer ends the process; reading a
\* deleted recording is undefined: the process dies or replies with whatever
\* the freed memory holds.
RespondToClient ==
    /\ Idle
    /\ \E parsed \in BOOLEAN :
        IF ~recordingInitialized \/ ~parsed
        THEN /\ result' = Err("respondToClient", "ignored")
             /\ NoOutput
             /\ UNCHANGED <<recording, h5, fileVars, numSamplesAcquired,
                            ctrlVars, pc, samples, appended, crashed>>
        ELSE IF recording = "null"
        THEN Terminate("respondToClient", "badPointer")
        ELSE \E request \in Requests,
                dies \in IF recording = "deleted" THEN BOOLEAN ELSE {FALSE},
                junk \in IF recording = "deleted"
                         THEN {NoRecording, fileAttr} ELSE {h5} :
             \E recordingStatus \in IF request["status"] = "true"
                                     THEN BOOLEAN ELSE {FALSE} :
                IF dies
                THEN Terminate("respondToClient", "badPointer")
                ELSE /\ reply' = ConstructStatusReply(request, junk,
                                                      recordingStatus)
                     /\ readResult' = NoRead
                     /\ reopened' = NoReopen
                     /\ entryLvs' = h5.lastValidSample
                     /\ h5' = StatusReplyEffect(h5)
                     /\ fileAttr' = IF recording = "open"
                                    THEN StatusReplyEffect(fileAttr)
                                    ELSE fileAttr
                     /\ result' = Ok("respondToClient")
                     /\ UNCHANGED <<recording, fileExists, fileData, created,
                                    numSamplesAcquired, ctrlVars, pc, samples,
                                    appended, crashed>>

\* finalize(): H5Recording::setLive(false), persisted.
Finalize ==
    /\ Idle
    /\ recording = "open"
    /\ h5.live
    /\ h5' = SetLive(h5, FALSE)
    /\ fileAttr' = SetLive(fileAttr, FALSE)
    /\ result' = Ok("finalize")
    /\ NoOutput
    /\ UNCHANGED <<recording, fileExists, fileData, created, numSamplesAcquired,
                   ctrlVars, pc, samples, appended, crashed>>

\* A reader of the recording file (another thread or process) calls
\* data(startSample, endSample); it runs at any point of the writer.
ReadPoints == {0, BLOCK_SIZE, 2 * BLOCK_SIZE + 1}

\* The ranges a reader asks for: reversed, within one block, and two that end
\* inside the third block.
ReadRequests == {<<BLOCK_SIZE, 0>>, <<0, BLOCK_SIZE>>,
                 <<0, 2 * BLOCK_SIZE + 1>>, <<BLOCK_SIZE, 2 * BLOCK_SIZE + 1>>}

ReaderData ==
    /\ fileExists
    /\ \E request \in ReadRequests :
        readResult' = ReadBoth(fileAttr, fileData, request[1], request[2])
    /\ result' = Err("data", readResult'.err)
    /\ reply' = NoReply
    /\ reopened' = NoReopen
    /\ UNCHANGED <<recording, h5, fileVars, numSamplesAcquired, ctrlVars, pc,
                   samples, appended, entryLvs, crashed>>

\* A reader opens the recording file: H5Recording(filename) on an existing
\* file reads its attributes back.
ReaderOpen ==
    /\ fileExists
    /\ reopened' = [opened |-> TRUE, attrs |-> ReadAttributes(fileAttr)]
    /\ result' = Ok("open")
    /\ reply' = NoReply
    /\ readResult' = NoRead
    /\ UNCHANGED <<recording, h5, fileVars, numSamplesAcquired, ctrlVars, pc,
                   samples, appended, entryLvs, crashed>>

\* The process is killed at any point.
Crash ==
    /\ ~crashed
    /\ Terminate("process", "killed")

Next ==
    \/ InitRecording /\ UNCHANGED plotVars
    \/ DeInitRecording /\ UNCHANGED plotVars
    \/ EditTimeLine /\ UNCHANGED plotVars
    \/ EditAdcRange /\ UNCHANGED plotVars
    \/ ConnectToDaqsrv /\ UNCHANGED plotVars
    \/ HandleDaqsrvConnection /\ UNCHANGED plotVars
    \/ DisconnectFromDaqsrv /\ UNCHANGED plotVars
    \/ HandleBrokenServerConnection /\ UNCHANGED plotVars
    \/ StartRecording /\ UNCHANGED plotVars
    \/ RecvData /\ UNCHANGED plotVars
    \/ RecvDataSetData /\ UNCHANGED plotVars
    \/ RecvDataAdvance /\ UNCHANGED plotVars
    \/ RecvDataSetLastValidSample /\ UNCHANGED plotVars
    \/ RespondToClient /\ UNCHANGED plotVars
    \/ Finalize /\ UNCHANGED plotVars
    \/ ReaderData /\ UNCHANGED plotVars
    \/ ReaderOpen /\ UNCHANGED plotVars
    \/ Crash /\ UNCHANGED plotVars

Spec == Init /\ [][Next]_vars

\* ------------------------------------------------------------ plot workers
\* PlotWorker::transferPlotData is entered (the sendData signal reaches every
\* worker); a worker the data is not for returns at once.  The others fetch
\* the settings and prepare the data, which touches nothing shared.
TransferPlotData(w) ==
    /\ worker[w].pc = "idle"
    /\ \E workerId \in Workers :
        IF workerId # w
        THEN UNCHANGED worker
        ELSE worker' = [worker EXCEPT ![w].transferring = TRUE,
                                      ![w].pc = "setPen"]
    /\ UNCHANGED <<sem, mealogVars>>

\* transferPlotData: subplot->setPen(pen)
TransferSetPen(w) ==
    /\ worker[w].pc = "setPen"
    /\ worker' = [worker EXCEPT ![w].pc = "acquire"]
    /\ UNCHANGED <<sem, mealogVars>>

\* transferPlotData: sem->acquire()
TransferAcquire(w) ==
    /\ worker[w].pc = "acquire"
    /\ sem >= 1
    /\ sem' = sem - 1
    /\ worker' = [worker EXCEPT ![w].held = @ + 1, ![w].pc = "setData"]
    /\ UNCHANGED mealogVars

\* transferPlotData: subplot->setData(...) and the rescaling of its axes
TransferSetData(w) ==
    /\ worker[w].pc = "setData"
    /\ worker' = [worker EXCEPT ![w].pc = "release"]
    /\ UNCHANGED <<sem, mealogVars>>

\* transferPlotData: sem->release(), then transferring = false and return
TransferRelease(w) ==
    /\ worker[w].pc = "release"
    /\ sem' = sem + 1
    /\ worker' = [worker EXCEPT ![w].held = @ - 1,
                                 ![w].transferring = FALSE,
                                 ![w].pc = "idle"]
    /\ UNCHANGED mealogVars

\* PlotWorker::replot is entered: sem->acquire(nthreads)
Replot(w) ==
    /\ worker[w].pc = "idle"
    /\ sem >= NThreads
    /\ sem' = sem - NThreads
    /\ worker' = [worker EXCEPT ![w].held = @ + NThreads, ![w].pc = "replot"]
    /\ UNCHANGED mealogVars

\* replot: p->replot()
ReplotDraw(w) ==
    /\ worker[w].pc = "replot"
    /\ worker' = [worker EXCEPT ![w].pc = "replotRelease"]
    /\ UNCHANGED <<sem, mealogVars>>

\* replot: sem->release(nthreads) and return
ReplotRelease(w) ==
    /\ worker[w].pc = "replotRelease"
    /\ sem' = sem + NThreads
    /\ worker' = [worker EXCEPT ![w].held = @ - NThreads, ![w].pc = "idle"]
    /\ UNCHANGED mealogVars

PlotNext ==
    \E w \in Workers :
        \/ TransferPlotData(w)
        \/ TransferSetPen(w)
        \/ TransferAcquire(w)
        \/ TransferSetData(w)
        \/ TransferRelease(w)
        \/ Replot(w)
        \/ ReplotDraw(w)
        \/ ReplotRelease(w)

\* The plot window's worker threads on their own.
PlotSpec == Init /\ [][PlotNext]_vars

\* ------------------------------------------------------------ properties
\* The blocks data(startSample, endSample) returns from the dataset, for a
\* range that starts and ends on block boundaries.
DataBlocks(h, data, startSample, endSample) ==
    LET r == Data(h, startSample, endSample) IN
    IF r.err # "none" THEN <<>>
    ELSE [b \in 1..((r.hi - r.lo) \div BLOCK_SIZE) |-> data[BlockOf(r.lo) + b - 1]]

\* recvData has returned or thrown on the open recording.
AppendEnded ==
    /\ recording = "open"
    /\ pc = 0
    /\ result.op = "recvData"
    /\ result.err # "pending"

\* C1: every lastValidSample a reader observes (in a status reply or in a
\* data() call on the file) is at most the number of leading samples whose
\* write has completed, at every point of the writer's append.
C1_ReaderWithinWritten ==
    /\ reply.sent /\ recording = "open" /\ "lastvalidsample" \in DOMAIN reply.fields
            => reply.fields["lastvalidsample"] <= WrittenPrefix(fileData)
    /\ readResult # NoRead
            => /\ readResult.lvs <= WrittenPrefix(fileData)
               /\ readResult.hi <= WrittenPrefix(fileData)

\* C2: 0 <= lastValidSample <= nsamples in every reachable state, in the
\* handle's members and in the persisted attributes.
C2_LvsWithinNsamples ==
    /\ recording = "open"
            => 0 <= h5.lastValidSample /\ h5.lastValidSample <= h5.nsamples
    /\ fileExists
            => /\ 0 <= fileAttr.lastValidSample
               /\ fileAttr.lastValidSample <= fileAttr.nsamples

\* C2 witness: the recording is full and a further block was refused.
C2_Witness ==
    /\ recording = "open"
    /\ h5.nsamples > 0
    /\ h5.lastValidSample = h5.nsamples
    /\ fileAttr.lastValidSample = fileAttr.nsamples
    /\ result = Err("recvData", "RangeError")

\* C3: after N blocks were appended to a newly created recording,
\* lastValidSample is N * blockSize and data(0, lastValidSample) is the N
\* blocks in the order they were appended.
C3_AppendsConcatenate ==
    recording = "open" /\ pc = 0
        => /\ h5.lastValidSample = Len(appended) * BLOCK_SIZE
           /\ DataBlocks(h5, fileData, 0, h5.lastValidSample) = appended

\* C4: an append called when lastValidSample + width > nsamples fails with
\* CapacityError and leaves lastValidSample (hence what is readable)
\* unchanged.
C4_CapacityError ==
    AppendEnded /\ entryLvs + client.blockSize > h5.nsamples
        => /\ result.err = "CapacityError"
           /\ h5.lastValidSample = entryLvs
           /\ fileAttr.lastValidSample = entryLvs

\* C5: an append that lands exactly on nsamples succeeds and leaves
\* lastValidSample = nsamples; once lastValidSample = nsamples a further
\* append fails with CapacityError.
C5_CapacityBoundary ==
    /\ AppendEnded /\ entryLvs + client.blockSize = h5.nsamples
                   /\ result.err # "IOError"
            => result.err = "none" /\ h5.lastValidSample = h5.nsamples
    /\ AppendEnded /\ entryLvs = h5.nsamples
            => result.err = "CapacityError" /\ h5.lastValidSample = h5.nsamples

\* C6: an append called after finalize() fails (with NotLiveError) and
\* leaves lastValidSample unchanged: it never ends without an error.
C6_NotLiveError ==
    AppendEnded /\ ~h5.live
        => /\ result.err # "none"
           /\ h5.lastValidSample = entryLvs
           /\ fileAttr.lastValidSample = entryLvs

\* C7: when an append fails, lastValidSample is what it was when the append
\* was called, in the handle and in the file.
C7_NoPartialAdvance ==
    AppendEnded /\ result.err # "none"
        => /\ h5.lastValidSample = entryLvs
           /\ fileAttr.lastValidSample = entryLvs

\* C7 witness: a write failed after part of the block reached the file, on a
\* recording that already holds data.
C7_Witness ==
    /\ AppendEnded
    /\ result.err = "IOError"
    /\ entryLvs > 0
    /\ \E b \in DOMAIN fileData : fileData[b] = Partial

\* C8: after a crash at any point, the persisted lastValidSample is at most
\* the number of leading samples written to the file.
C8_CrashSafe ==
    crashed /\ fileExists
        => fileAttr.lastValidSample <= WrittenPrefix(fileData)

\* The handlers that are no append and create or destroy no recording.
OtherOps == {"editTimeLine", "editAdcRange", "connectToDaqsrv", "handleDaqsrvConnection",
             "disconnectFromDaqsrv", "handleBrokenServerConnection",
             "startRecording", "respondToClient", "finalize"}

\* C9: only an append changes lastValidSample of an existing recording: every
\* other handler, a status reply and a data() call leave it as it was.
C9_OnlyAppendChangesLvs ==
    /\ recording = "open" /\ result.op \in OtherOps
            => /\ h5.lastValidSample = entryLvs
               /\ fileAttr.lastValidSample = entryLvs
    /\ recording = "open" /\ reply.sent
                          /\ "lastvalidsample" \in DOMAIN reply.fields
            => /\ h5.lastValidSample = reply.fields["lastvalidsample"]
               /\ fileAttr.lastValidSample = reply.fields["lastvalidsample"]
    /\ recording = "open" /\ reply.sent
            => /\ h5.lastValidSample = entryLvs
               /\ fileAttr.lastValidSample = entryLvs
    /\ fileExists /\ readResult # NoRead
            => fileAttr.lastValidSample = readResult.lvs

\* C9 witness: a status reply was built for a finalized recording that holds
\* data.
C9_Witness ==
    /\ recording = "open"
    /\ reply.sent
    /\ "lastvalidsample" \in DOMAIN reply.fields
    /\ ~h5.live
    /\ h5.lastValidSample > 0

\* C10: data(startSample, endSample) fails with RangeError when startSample
\* >= lastValidSample and otherwise returns [startSample, min(endSample,
\* lastValidSample)), so no returned sample has an index >= lastValidSample.
C10_ReadsClamped ==
    /\ fileExists =>
        \A startSample \in ReadPoints, endSample \in ReadPoints :
            LET r == Data(fileAttr, startSample, endSample)
                lvs == fileAttr.lastValidSample
            IN  /\ startSample >= lvs => r.err = "RangeError"
                /\ r.err = "none"
                     => /\ r.lo = startSample
                        /\ r.hi = (IF endSample < lvs THEN endSample ELSE lvs)
                        /\ r.hi <= lvs
    /\ readResult # NoRead /\ readResult.err = "none"
            => readResult.lo < readResult.hi /\ readResult.hi <= readResult.lvs

\* C10 witness: a read whose end lay beyond lastValidSample returned the
\* range up to lastValidSample.
C10_Witness ==
    /\ readResult.err = "none"
    /\ readResult.lvs = 2 * BLOCK_SIZE
    /\ readResult.hi = 2 * BLOCK_SIZE

\* C11: data(startSample, endSample) with endSample <= startSample fails with
\* RangeError in every state of the recording, whatever lastValidSample is.
C11_ReversedRangeError ==
    /\ \A startSample \in ReadPoints, endSample \in ReadPoints :
            endSample <= startSample
                => /\ fileExists
                        => Data(fileAttr, startSample, endSample).err = "RangeError"
                   /\ recording = "open"
                        => Data(h5, startSample, endSample).err = "RangeError"
    /\ readResult # NoRead /\ readResult.endSample <= readResult.startSample
            => readResult.err = "RangeError" /\ readResult.raw = <<>>

\* C11 witness: a reader asked for a reversed range that starts below
\* lastValidSample and was refused.
C11_Witness ==
    /\ readResult.startSample = BLOCK_SIZE
    /\ readResult.endSample = 0
    /\ readResult.lvs > BLOCK_SIZE
    /\ readResult.err = "RangeError"

\* The recording of the file is no longer open in the controller: the
\* acquisition finished (cleanupRecording) or the recording was closed.
SessionEnded ==
    /\ ~crashed
    /\ fileExists
    /\ created # NoRecording
    /\ recording # "open"

\* C12: after finalize() live is false in the handle and in the file, and a
\* recording whose acquisition session has ended has live = false persisted.
C12_LiveFalseAfterSession ==
    /\ result = Ok("finalize") => ~h5.live /\ ~fileAttr.live
    /\ SessionEnded => ~fileAttr.live

\* finalize() is irreversible on a handle: while the recording stays open,
\* live does not go back to true.
C12_Irreversible ==
    [][recording = "open" /\ ~h5.live /\ recording' = "open" => ~h5'.live]_vars

\* recvData is about to write the block it received.
AppendStarts ==
    /\ recording = "open"
    /\ pc > 0
    /\ RecvDataOrder[pc] = "setData"

\* C13: at the start of every append the start index of the data write
\* (numSamplesAcquired) equals the recording's lastValidSample.
C13_AppendAtLvs ==
    AppendStarts => numSamplesAcquired = h5.lastValidSample

\* C14: the chunk width along the sample axis equals the recording's
\* blockSize; every append starts at a multiple of blockSize and is blockSize
\* wide, so lastValidSample is a multiple of blockSize after each append.
C14_WholeChunkAppends ==
    /\ recording = "open" => h5.blockSize = BLOCK_SIZE
    /\ AppendStarts
            => /\ numSamplesAcquired % h5.blockSize = 0
               /\ client.blockSize = h5.blockSize
    /\ AppendEnded /\ result.err = "none"
            => h5.lastValidSample % h5.blockSize = 0

\* C15: right after a recording is created it is live, lastValidSample is 0,
\* nsamples is length * sampleRate, gain is (2 * adcRange) / 65536 and offset
\* is adcRange, in the handle and in the file.
C15_CreatedState ==
    result.op = "initRecording" /\ result.err = "none"
        => /\ h5.live
           /\ h5.lastValidSample = 0
           /\ h5.length = timeLine
           /\ h5.nsamples = timeLine * h5.sampleRate
           /\ h5.gain.num * 65536 = 2 * adcRangeBox * h5.gain.den
           /\ h5.offset = adcRangeBox
           /\ fileAttr = h5

\* C15 witness: a recording was created with a range other than the default.
C15_Witness ==
    /\ result.op = "initRecording"
    /\ result.err = "none"
    /\ recording = "open"
    /\ adcRangeBox # DEFAULT_ADC_RANGE

\* The attributes set at creation that the metadata round trip covers.
Metadata(h) ==
    [type |-> h.type, version |-> h.version, sampleRate |-> h.sampleRate,
     gain |-> h.gain, offset |-> h.offset, nchannels |-> h.nchannels,
     blockSize |-> h.blockSize, nsamples |-> h.nsamples, date |-> h.date,
     time |-> h.time, room |-> h.room]

Config(h) ==
    [sampleRate |-> h.sampleRate, gain |-> h.gain, offset |-> h.offset,
     nchannels |-> h.nchannels, blockSize |-> h.blockSize, date |-> h.date,
     time |-> h.time, room |-> h.room]

\* C18: the configuration attributes stay what they were set to at creation,
\* in the handle and in the file, through appends, reads, finalize and
\* status replies.
C18_ConfigFixed ==
    /\ recording = "open" => Config(h5) = Config(created)
    /\ fileExists /\ created # NoRecording
            => Config(fileAttr) = Config(created)

\* C18 witness: a recording with two blocks appended was finalized.
C18_Witness ==
    /\ recording = "open"
    /\ result = Ok("finalize")
    /\ h5.lastValidSample >= 2 * BLOCK_SIZE
    /\ created.gain = Gain(1)

\* voltage is raw * gain - offset with the file's gain and offset, over the
\* gain's denominator.
IsConverted(voltage, raw, gain, offset) ==
    /\ voltage.den = gain.den
    /\ voltage.num = raw * gain.num - offset * gain.den

\* C19: for every range that can be read, the voltages returned are the raw
\* samples returned for the same range mapped through raw * gain - offset.
C19_VoltageIsScaledRaw ==
    /\ fileExists =>
        \A startSample \in ReadPoints, endSample \in ReadPoints :
            LET r == ReadBoth(fileAttr, fileData, startSample, endSample)
            IN  r.err = "none"
                    => /\ DOMAIN r.voltage = DOMAIN r.raw
                       /\ \A b \in DOMAIN r.raw :
                            IsConverted(r.voltage[b], r.raw[b],
                                        fileAttr.gain, fileAttr.offset)
    /\ readResult # NoRead /\ readResult.err = "none"
            => /\ DOMAIN readResult.voltage = DOMAIN readResult.raw
               /\ \A b \in DOMAIN readResult.raw :
                    IsConverted(readResult.voltage[b], readResult.raw[b],
                                fileAttr.gain, fileAttr.offset)

\* C19 witness: two appended blocks were read raw and as voltages.
C19_Witness ==
    /\ readResult.err = "none"
    /\ readResult.lo = 0
    /\ readResult.hi = 2 * BLOCK_SIZE
    /\ \E b \in DOMAIN readResult.raw : readResult.raw[b] > 1
    /\ fileAttr.offset = 1

\* The handle's getter behind reply field f; the status field stands for
\* live.
HandleGetter(h, f) == IF f = "status" THEN h.live ELSE ReplyValue(h, h.live, f)

\* C20: a status reply has exactly the fields the request has present and
\* true, each with the value of the recording's getter, and building it
\* leaves the recording as it was.
C20_StatusReply ==
    reply.sent /\ recording = "open"
        => /\ DOMAIN reply.fields
                    = {f \in ReplyFields : reply.request[f] = "true"}
           /\ \A f \in DOMAIN reply.fields :
                    reply.fields[f] = HandleGetter(h5, f)
           /\ h5.lastValidSample = entryLvs
           /\ fileAttr = h5
           /\ Config(h5) = Config(created)

\* C21: recordingInitialized implies that `recording` refers to an open
\* H5Recording, so no status request is answered from a null or destroyed
\* handle and no handle is deleted twice.
C21_InitializedMeansOpen ==
    /\ recordingInitialized => recording = "open"
    /\ result.err \notin {"badPointer", "doubleDelete"}

\* C22: when initRecording finds the file and the user answers Cancel, or
\* the old file cannot be removed, it aborts: the file stays, no recording is
\* created, recordingInitialized stays false and the parameter controls stay
\* enabled.
C22_InitAborts ==
    result.op = "initRecording"
    /\ (result.answer = "Cancel" \/ result.err = "notRemoved")
        => /\ result.err # "none"
           /\ fileExists
           /\ recording # "open"
           /\ ~recordingInitialized
           /\ paramsEnabled

\* C23: the Start button is enabled only if a recording is initialized and
\* the client is connected to the NI-DAQ server.
C23_StartNeedsInitAndConnection ==
    startButton => recordingInitialized /\ IsConnected(client)

\* The statements of transferPlotData that modify the worker's subplot.
SubplotUpdate == {"setPen", "setData"}

\* C24: p->replot() runs only while its worker holds all nthreads permits, a
\* worker modifies its subplot only while it holds one permit, no worker is
\* modifying its subplot while a replot executes, and a worker that has
\* returned holds no permit.
C24_PlotMutualExclusion ==
    \A w \in Workers :
        /\ worker[w].pc = "replot"
                => /\ worker[w].held = NThreads
                   /\ \A v \in Workers \ {w} : worker[v].pc \notin SubplotUpdate
        /\ worker[w].pc \in SubplotUpdate => worker[w].held = 1
        /\ worker[w].pc = "idle" => worker[w].held = 0

\* The part of C24 the semaphore does give: no worker is between its
\* acquire and its release while a replot executes, and no permit is lost.
C24_SetDataExcluded ==
    \A w \in Workers :
        /\ worker[w].pc = "replot"
                => /\ worker[w].held = NThreads
                   /\ \A v \in Workers \ {w} :
                        worker[v].pc \notin {"setData", "release"}
        /\ worker[w].pc = "idle" => worker[w].held = 0
        /\ sem >= 0 /\ sem <= NThreads

====
